---- MODULE Spec2Model ----
(***************************************************************************)
(* A model of cleaner.py: the environment-reset script that backs up       *)
(* folders, cleans a MySQL database in one of three modes, empties         *)
(* folders and repopulates them from source folders.                       *)
(*                                                                         *)
(* The program is sequential.  Its state is the database (tables and row   *)
(* counts, the session's FOREIGN_KEY_CHECKS), the file system (the         *)
(* configured folders and their direct children, the backup root) and the  *)
(* position of __main__.  The environment (what settings.ini holds, which  *)
(* statements the server refuses, what the operator types) is chosen in    *)
(* Init or drawn by the actions.                                           *)
(***************************************************************************)
EXTENDS Naturals, Sequences, FiniteSets

VARIABLES
    pc,          \* position of __main__ (and of clean_database inside it)
    trace,       \* the phases __main__ has run, in order
    err,         \* "" or the name of the exception that ended the run
    deps_ok,     \* environment: pymysql and cryptography import
    ini_exists,  \* environment: settings.ini is present
    ini,         \* environment: what settings.ini parses to
    settings,    \* the settings dict of __main__
    db,          \* the database: existing tables and their row counts
    db0,         \* the database when the run started
    denied,      \* environment: tables whose DROP/TRUNCATE the server refuses
    conn,        \* clean_database's connection: "closed", "open", "failed"
    fk,          \* the open session's FOREIGN_KEY_CHECKS
    sql,         \* statements clean_database's cursor was given, with outcome
    prompts,     \* confirm_destructive_operation calls, with outcome
    fs,          \* the folders and their direct children
    fs0,         \* the folders when the run started
    fs1,         \* the folders when copy_files_to_cleaned_folders was entered
    tools,       \* environment: sudo, mkdir, cp and rsync are on PATH
    bk,          \* the backup root directory
    bk_ok,       \* environment: the backup root can be created
    bklog,       \* sources create_backup tried to copy, with outcome
    backup_path, \* __main__'s backup_path
    cplog        \* what copy_files_to_cleaned_folders copied, with outcome

vars == <<pc, trace, err, deps_ok, ini_exists, ini, settings, db, db0, denied,
          conn, fk, sql, prompts, fs, fs0, fs1, tools, bk, bk_ok, bklog,
          backup_path, cplog>>

----------------------------------------------------------------------------
(* Bounds of the model. *)

\* longest database.tables list
MaxTables == 2
\* most rows a table holds
MaxRows == 1
\* longest copy_sources / copy_destinations list
MaxPairs == 2

----------------------------------------------------------------------------
(* Values. *)

TableNames == {"users", "sessions", "logs"}

Modes == {"drop_all", "drop_list", "truncate", "vacuum"}

\* Folder paths, as their components: /tmp/a, /opt/a, /tmp/src, /tmp/missing.
DirA == <<"tmp", "a">>
DirB == <<"opt", "a">>
DirS == <<"tmp", "src">>
DirM == <<"tmp", "missing">>
Folders == {DirA, DirB, DirS, DirM}

\* Names of the direct children of a folder.
Names == {"x", "y"}

\* What a direct child is: a regular file, a directory, or a dangling
\* symlink (os.path.isfile and os.path.isdir are both False for it).
Kinds == {"file", "dir", "broken_link"}

\* No child of that name.
NoEntry == [kind |-> "none", from |-> <<>>]

\* A child, with the folder its content comes from.
Entry(k, f) == [kind |-> k, from |-> f]

NoDir == [exists |-> FALSE, kids |-> [n \in Names |-> NoEntry]]

EmptyDir == [exists |-> TRUE, kids |-> [n \in Names |-> NoEntry]]

\* Python's None for backup_path.
None == "None"

\* The sequences over S of length at most n.
SeqUpTo(S, n) == UNION {[1..k -> S] : k \in 0..n}

\* The elements of a sequence.
Range(s) == {s[i] : i \in 1..Len(s)}

\* The orders in which a set can be enumerated (os.listdir, list(set(..))).
Orders(S) == {o \in [1..Cardinality(S) -> S] : Range(o) = S}

\* s without the positions in skip.
RECURSIVE Without(_, _)
Without(s, skip) ==
    IF s = <<>> THEN <<>>
    ELSE LET rest == Without(SubSeq(s, 1, Len(s) - 1), skip)
         IN IF Len(s) \in skip THEN rest ELSE Append(rest, s[Len(s)])

----------------------------------------------------------------------------
(* load_settings *)

Unloaded ==
    [database |-> [database_name |-> "", mode |-> "", tables |-> <<>>],
     folders  |-> [clean |-> <<>>, copy_sources |-> <<>>,
                   copy_destinations |-> <<>>, copy_user |-> ""],
     backup   |-> [enable |-> FALSE, backup_dir |-> ""],
     security |-> [confirm_destructive_operations |-> FALSE]]

MkSettings(name, mode, tables, clean, srcs, dsts, user, enable, dir, confirm) ==
    [database |-> [database_name |-> name, mode |-> mode, tables |-> tables],
     folders  |-> [clean |-> clean, copy_sources |-> srcs,
                   copy_destinations |-> dsts, copy_user |-> user],
     backup   |-> [enable |-> enable, backup_dir |-> dir],
     security |-> [confirm_destructive_operations |-> confirm]]

----------------------------------------------------------------------------
(* confirm_destructive_operation *)

\* What the operator types, as characters.  "de" and "a_cyr" stand for the
\* Cyrillic letters of the localized yes tokens, "DE" for the capital one.
Blank == {" ", "\t"}

Lower(c) ==
    CASE c = "Y" -> "y"
      [] c = "E" -> "e"
      [] c = "S" -> "s"
      [] c = "N" -> "n"
      [] c = "DE" -> "de"
      [] OTHER -> c

\* str.strip()
RECURSIVE LStrip(_)
LStrip(s) == IF s # <<>> /\ s[1] \in Blank THEN LStrip(Tail(s)) ELSE s

RECURSIVE RStrip(_)
RStrip(s) ==
    IF s # <<>> /\ s[Len(s)] \in Blank
    THEN RStrip(SubSeq(s, 1, Len(s) - 1)) ELSE s

Strip(s) == RStrip(LStrip(s))

\* str.lower()
ToLower(s) == [i \in 1..Len(s) |-> Lower(s[i])]

YesTokens == {<<"y">>, <<"y", "e", "s">>, <<"de">>, <<"de", "a_cyr">>}

\* stdin is closed: input() raises EOFError.
Eof == <<"EOF">>

Inputs ==
    {<<" ", "Y", "e", "s", " ">>, <<"DE", "a_cyr">>, <<>>, <<"y", "e", "p">>,
     Eof}

\* The value confirm_destructive_operation returns for a typed line.
confirm_destructive_operation(raw) == ToLower(Strip(raw)) \in YesTokens

----------------------------------------------------------------------------
(* The database and the statements of the cursor. *)

Stmt(s, ts, ok) == [stmt |-> s, tables |-> ts, ok |-> ok]

\* get_all_tables: SHOW TABLES
get_all_tables(dbv) == dbv.exists

Dropped(dbv, ts) ==
    [exists |-> dbv.exists \ ts,
     rows   |-> [t \in TableNames |-> IF t \in ts THEN 0 ELSE dbv.rows[t]]]

Truncated(dbv, t) == [dbv EXCEPT !.rows[t] = 0]

\* DROP TABLE IF EXISTS t: refused without the privilege, silent on a
\* missing table.
DropIfExistsOk(dbv, den, t) == t \notin den

\* TRUNCATE TABLE t: refused without the privilege, an error on a missing
\* table.
TruncateOk(dbv, den, t) == t \in dbv.exists /\ t \notin den

\* DROP TABLE t1, t2, ...: refused when one of them may not be dropped.
DropManyOk(dbv, den, ts) == ts \cap den = {} /\ ts \subseteq dbv.exists

\* Mutant of DropLoop: a per-table try, the loop goes on after a failure.
RECURSIVE DropLoopPastFailure(_, _, _, _, _)
DropLoopPastFailure(dbv, den, tables_list, i, done) ==
    IF i > Len(tables_list)
    THEN [db |-> dbv, sql |-> done, raised |-> FALSE]
    ELSE LET t == tables_list[i]
             ok == DropIfExistsOk(dbv, den, t)
         IN DropLoopPastFailure(IF ok THEN Dropped(dbv, {t}) ELSE dbv, den,
                                tables_list, i + 1,
                                Append(done, Stmt("DROP TABLE IF EXISTS", {t}, ok)))

\* The for loop of drop_specific_tables from position i on: the first
\* statement that raises leaves the loop.
RECURSIVE DropLoop(_, _, _, _, _)
DropLoop(dbv, den, tables_list, i, done) ==
    IF i > Len(tables_list)
    THEN [db |-> dbv, sql |-> done, raised |-> FALSE]
    ELSE LET t == tables_list[i]
         IN IF DropIfExistsOk(dbv, den, t)
            THEN DropLoop(Dropped(dbv, {t}), den, tables_list, i + 1,
                          Append(done, Stmt("DROP TABLE IF EXISTS", {t}, TRUE)))
            ELSE [db |-> dbv,
                  sql |-> Append(done, Stmt("DROP TABLE IF EXISTS", {t}, FALSE)),
                  raised |-> TRUE]

\* Mutant of TruncateLoop: a per-table try, the loop goes on after a failure.
RECURSIVE TruncateLoopPastFailure(_, _, _, _, _)
TruncateLoopPastFailure(dbv, den, tables_list, i, done) ==
    IF i > Len(tables_list)
    THEN [db |-> dbv, sql |-> done, raised |-> FALSE]
    ELSE LET t == tables_list[i]
             ok == TruncateOk(dbv, den, t)
         IN TruncateLoopPastFailure(IF ok THEN Truncated(dbv, t) ELSE dbv, den,
                                    tables_list, i + 1,
                                    Append(done, Stmt("TRUNCATE TABLE", {t}, ok)))

\* The for loop of truncate_tables from position i on.
RECURSIVE TruncateLoop(_, _, _, _, _)
TruncateLoop(dbv, den, tables_list, i, done) ==
    IF i > Len(tables_list)
    THEN [db |-> dbv, sql |-> done, raised |-> FALSE]
    ELSE LET t == tables_list[i]
         IN IF TruncateOk(dbv, den, t)
            THEN TruncateLoop(Truncated(dbv, t), den, tables_list, i + 1,
                              Append(done, Stmt("TRUNCATE TABLE", {t}, TRUE)))
            ELSE [db |-> dbv,
                  sql |-> Append(done, Stmt("TRUNCATE TABLE", {t}, FALSE)),
                  raised |-> TRUE]

FkOff == Stmt("SET FOREIGN_KEY_CHECKS = 0", {}, TRUE)

FkOn(ok) == Stmt("SET FOREIGN_KEY_CHECKS = 1", {}, ok)

\* The except branch of the two drop functions: SET FOREIGN_KEY_CHECKS = 1
\* is tried again and its own failure is swallowed.
Reenable(r, handler_ok) ==
    [db |-> r.db, sql |-> Append(r.sql, FkOn(handler_ok)),
     fk |-> IF handler_ok THEN 1 ELSE 0]

\* drop_all_tables, on a session whose checks are on.
drop_all_tables(dbv, den, handler_ok) ==
    LET tables == get_all_tables(dbv)
    IN IF tables = {}
       THEN [db |-> dbv, sql |-> <<FkOff>>, fk |-> 0]
       ELSE IF DropManyOk(dbv, den, tables)
            THEN [db |-> Dropped(dbv, tables),
                  sql |-> <<FkOff, Stmt("DROP TABLE", tables, TRUE), FkOn(TRUE)>>,
                  fk |-> 1]
            ELSE Reenable([db |-> dbv,
                           sql |-> <<FkOff, Stmt("DROP TABLE", tables, FALSE)>>],
                          handler_ok)

\* drop_specific_tables
drop_specific_tables(dbv, den, tables_list, handler_ok) ==
    LET r == DropLoop(dbv, den, tables_list, 1, <<FkOff>>)
    IN IF r.raised
       THEN Reenable(r, handler_ok)
       ELSE [db |-> r.db, sql |-> Append(r.sql, FkOn(TRUE)), fk |-> 1]

\* truncate_tables: the commit follows the loop, inside the try.
truncate_tables(dbv, den, tables_list) ==
    LET r == TruncateLoop(dbv, den, tables_list, 1, <<>>)
    IN IF r.raised
       THEN [db |-> r.db, sql |-> r.sql]
       ELSE [db |-> r.db, sql |-> Append(r.sql, Stmt("COMMIT", {}, TRUE))]

----------------------------------------------------------------------------
(* The file system. *)

\* os.path.isfile / os.path.isdir / os.path.exists of a child
isfile(e) == e.kind = "file"

isdir(e) == e.kind = "dir"

path_exists(e) == e.kind \in {"file", "dir"}

\* os.listdir in the order the file system gives: the children present.
RECURSIVE listdir(_, _)
listdir(d, order) ==
    IF order = <<>> THEN <<>>
    ELSE IF d.kids[Head(order)].kind = "none"
         THEN listdir(d, Tail(order))
         ELSE <<Head(order)>> \o listdir(d, Tail(order))

\* os.path.basename(p.rstrip('/'))
basename(p) == p[Len(p)]

Basenames == {basename(f) : f \in Folders}

----------------------------------------------------------------------------
(* clean_folders *)

\* The body of the for loop for one folder: files are unlinked, directories
\* removed, a child that is neither is passed over.
CleanFolder(d) ==
    IF d.exists
    THEN [d EXCEPT !.kids = [n \in Names |->
                                IF isfile(d.kids[n]) \/ isdir(d.kids[n])
                                THEN NoEntry ELSE d.kids[n]]]
    ELSE d

\* The for loop over folders_to_clean from position i on.
RECURSIVE CleanLoop(_, _, _)
CleanLoop(fsv, folders_to_clean, i) ==
    IF i > Len(folders_to_clean) THEN fsv
    ELSE LET f == folders_to_clean[i]
         IN CleanLoop([fsv EXCEPT ![f] = CleanFolder(fsv[f])],
                      folders_to_clean, i + 1)

----------------------------------------------------------------------------
(* run_as_user and copy_files_to_cleaned_folders *)

CurrentUser == "root"

\* run_as_user: "ok" (True, stdout), "failed" (False, stderr) when the
\* command exits non-zero, "raise" when the command cannot be started, which
\* the function does not catch.
run_as_user(command, username, on_path, exit_ok) ==
    LET cmd == IF username # "" /\ username # CurrentUser
               THEN <<"sudo", "-u", username>> \o command ELSE command
    IN IF ~on_path THEN [cmd |-> cmd, status |-> "raise"]
       ELSE IF exit_ok THEN [cmd |-> cmd, status |-> "ok"]
       ELSE [cmd |-> cmd, status |-> "failed"]

\* Whether rsync -ar src/ dest/ exits 0: dest is absent or a directory.
RsyncOk(dentry) == dentry.kind \in {"none", "dir"}

\* Whether cp -p src dest exits 0: src can be read, dest is not a dangling
\* symlink.
CpOk(sentry, dentry) == isfile(sentry) /\ dentry.kind # "broken_link"

\* The child of the destination after a file was copied onto dest_path: a
\* directory there receives the file inside it and stays.
FileOnto(dentry, src) == IF isdir(dentry) THEN dentry ELSE Entry("file", src)

\* One child under a copy-user: rsync for a directory, cp -p for the rest.
CopyItemAsUser(dentry, sentry, src, username, on_path) ==
    LET r == IF isdir(sentry)
             THEN run_as_user(<<"rsync", "-ar">>, username, on_path,
                              RsyncOk(dentry))
             ELSE run_as_user(<<"cp", "-p">>, username, on_path,
                              CpOk(sentry, dentry))
    IN [status |-> r.status,
        entry  |-> IF r.status # "ok" THEN dentry
                   ELSE IF isdir(sentry) THEN Entry("dir", src)
                   ELSE FileOnto(dentry, src)]

\* One child in process: rmtree + copytree for a directory, copy2 for the
\* rest.  thru: writing through a dangling symlink creates its target.
CopyItemDirect(dentry, sentry, src, thru) ==
    IF isdir(sentry)
    THEN IF isfile(dentry) \/ dentry.kind = "broken_link"
         THEN [status |-> "raise", entry |-> dentry]
         ELSE [status |-> "ok", entry |-> Entry("dir", src)]
    ELSE IF ~isfile(sentry)
         THEN [status |-> "raise", entry |-> dentry]
         ELSE IF dentry.kind = "broken_link" /\ ~thru
              THEN [status |-> "raise", entry |-> dentry]
              ELSE [status |-> "ok", entry |-> FileOnto(dentry, src)]

Event(i, item, status) == [pair |-> i, item |-> item, status |-> status]

\* Mutant of CopyItems: a child reported as failed ends the loop too.
RECURSIVE CopyItemsUntilFailure(_, _, _, _, _, _, _, _, _)
CopyItemsUntilFailure(dkids, skids, src, i, items, username, on_path, thru, log) ==
    IF items = <<>> THEN [kids |-> dkids, log |-> log]
    ELSE LET n == Head(items)
             r == IF username # ""
                  THEN CopyItemAsUser(dkids[n], skids[n], src, username, on_path)
                  ELSE CopyItemDirect(dkids[n], skids[n], src, thru)
             kids2 == [dkids EXCEPT ![n] = r.entry]
             log2 == Append(log, Event(i, n, r.status))
         IN IF r.status # "ok"
            THEN [kids |-> kids2, log |-> log2]
            ELSE CopyItemsUntilFailure(kids2, skids, src, i, Tail(items),
                                       username, on_path, thru, log2)

\* The for loop over os.listdir(source_folder): under a copy-user a failed
\* child is reported and the loop goes on; an exception leaves the loop.
RECURSIVE CopyItems(_, _, _, _, _, _, _, _, _)
CopyItems(dkids, skids, src, i, items, username, on_path, thru, log) ==
    IF items = <<>> THEN [kids |-> dkids, log |-> log]
    ELSE LET n == Head(items)
             r == IF username # ""
                  THEN CopyItemAsUser(dkids[n], skids[n], src, username, on_path)
                  ELSE CopyItemDirect(dkids[n], skids[n], src, thru)
             kids2 == [dkids EXCEPT ![n] = r.entry]
             log2 == Append(log, Event(i, n, r.status))
         IN IF r.status = "raise"
            THEN [kids |-> kids2, log |-> log2]
            ELSE CopyItems(kids2, skids, src, i, Tail(items), username,
                           on_path, thru, log2)

\* Mutant of CopyPair: the destination is not looked up in the clean-list.
CopyPairIntoAnyFolder(fsv, log, folders, i, on_path, order, mkdir_ok, thru) ==
    LET source_folder == folders.copy_sources[i]
        dest_folder == folders.copy_destinations[i]
        copy_user == folders.copy_user
        mk == run_as_user(<<"mkdir", "-p">>, copy_user, on_path, mkdir_ok)
    IN IF ~fsv[source_folder].exists THEN [fs |-> fsv, log |-> log]
       ELSE IF ~fsv[dest_folder].exists /\ copy_user # "" /\ mk.status # "ok"
            THEN [fs |-> fsv, log |-> Append(log, Event(i, "mkdir", mk.status))]
       ELSE LET made == IF fsv[dest_folder].exists THEN fsv
                        ELSE [fsv EXCEPT ![dest_folder] = EmptyDir]
                log1 == IF fsv[dest_folder].exists THEN log
                        ELSE Append(log, Event(i, "mkdir", "ok"))
                r == CopyItems(made[dest_folder].kids, made[source_folder].kids,
                               source_folder, i,
                               listdir(made[source_folder], order),
                               copy_user, on_path, thru, log1)
            IN [fs |-> [made EXCEPT ![dest_folder].kids = r.kids],
                log |-> r.log]

\* The body of the for loop over the pairs, for pair i.
CopyPair(fsv, log, folders, i, on_path, order, mkdir_ok, thru) ==
    LET source_folder == folders.copy_sources[i]
        dest_folder == folders.copy_destinations[i]
        copy_user == folders.copy_user
        mk == run_as_user(<<"mkdir", "-p">>, copy_user, on_path, mkdir_ok)
    IN IF dest_folder \notin Range(folders.clean) THEN [fs |-> fsv, log |-> log]
       ELSE IF ~fsv[source_folder].exists THEN [fs |-> fsv, log |-> log]
       ELSE IF ~fsv[dest_folder].exists /\ copy_user # "" /\ mk.status # "ok"
            THEN [fs |-> fsv, log |-> Append(log, Event(i, "mkdir", mk.status))]
       ELSE LET made == IF fsv[dest_folder].exists THEN fsv
                        ELSE [fsv EXCEPT ![dest_folder] = EmptyDir]
                log1 == IF fsv[dest_folder].exists THEN log
                        ELSE Append(log, Event(i, "mkdir", "ok"))
                r == CopyItems(made[dest_folder].kids, made[source_folder].kids,
                               source_folder, i,
                               listdir(made[source_folder], order),
                               copy_user, on_path, thru, log1)
            IN [fs |-> [made EXCEPT ![dest_folder].kids = r.kids],
                log |-> r.log]

\* The for loop over the pairs from position i on.
RECURSIVE CopyPairs(_, _, _, _, _, _, _, _)
CopyPairs(fsv, log, folders, i, on_path, order, mkdir_ok, thru) ==
    IF i > Len(folders.copy_sources) THEN [fs |-> fsv, log |-> log]
    ELSE LET r == CopyPair(fsv, log, folders, i, on_path, order, mkdir_ok, thru)
         IN CopyPairs(r.fs, r.log, folders, i + 1, on_path, order, mkdir_ok, thru)

\* copy_files_to_cleaned_folders
copy_files_to_cleaned_folders(fsv, folders, on_path, order, mkdir_ok, thru) ==
    IF folders.copy_sources = <<>> \/ folders.copy_destinations = <<>>
    THEN [fs |-> fsv, log |-> <<>>]
    ELSE IF Len(folders.copy_sources) # Len(folders.copy_destinations)
         THEN [fs |-> fsv, log |-> <<>>]
         ELSE CopyPairs(fsv, <<>>, folders, 1, on_path, order, mkdir_ok, thru)

----------------------------------------------------------------------------
(* create_backup *)

\* The directory create_backup resolves: the configured one, or a fresh
\* /tmp/backup_<timestamp>.
ResolvedBackupDir(backup_dir) ==
    IF backup_dir = "" THEN "/tmp/backup_<timestamp>" ELSE backup_dir

NoBackup == [exists |-> FALSE, kids |-> [b \in Basenames |-> <<>>]]

\* copytree(source_folder, backup_path) raises when backup_path exists, and,
\* after copying the rest, when a child cannot be copied.
CopytreeRaises(d, bkv, name) ==
    bkv.kids[name] # <<>> \/ \E n \in Names : d.kids[n].kind = "broken_link"

\* The for loop over source_folders from position i on: the first source
\* whose copy raises leaves the loop.
RECURSIVE BackupLoop(_, _, _, _, _)
BackupLoop(fsv, bkv, source_folders, i, log) ==
    IF i > Len(source_folders) THEN [bk |-> bkv, log |-> log, raised |-> FALSE]
    ELSE LET source_folder == source_folders[i]
             folder_name == basename(source_folder)
         IN IF ~fsv[source_folder].exists
            THEN BackupLoop(fsv, bkv, source_folders, i + 1, log)
            ELSE IF CopytreeRaises(fsv[source_folder], bkv, folder_name)
                 THEN [bk |-> IF bkv.kids[folder_name] # <<>> THEN bkv
                              ELSE [bkv EXCEPT !.kids[folder_name] = source_folder],
                       log |-> Append(log, [src |-> source_folder, ok |-> FALSE]),
                       raised |-> TRUE]
                 ELSE BackupLoop(fsv,
                                 [bkv EXCEPT !.kids[folder_name] = source_folder],
                                 source_folders, i + 1,
                                 Append(log, [src |-> source_folder, ok |-> TRUE]))

\* Mutant of create_backup: the path is returned although a copy raised.
create_backup_path_despite_failure(setv, source_folders, fsv, bkv, creatable) ==
    IF ~setv.backup.enable THEN [path |-> None, bk |-> bkv, log |-> <<>>]
    ELSE IF ~bkv.exists /\ ~creatable
         THEN [path |-> None, bk |-> bkv, log |-> <<>>]
         ELSE LET r == BackupLoop(fsv, [bkv EXCEPT !.exists = TRUE],
                                  source_folders, 1, <<>>)
              IN [path |-> ResolvedBackupDir(setv.backup.backup_dir),
                  bk |-> r.bk, log |-> r.log]

\* create_backup
create_backup(setv, source_folders, fsv, bkv, creatable) ==
    IF ~setv.backup.enable THEN [path |-> None, bk |-> bkv, log |-> <<>>]
    ELSE IF ~bkv.exists /\ ~creatable
         THEN [path |-> None, bk |-> bkv, log |-> <<>>]
         ELSE LET r == BackupLoop(fsv, [bkv EXCEPT !.exists = TRUE],
                                  source_folders, 1, <<>>)
              IN [path |-> IF r.raised THEN None
                           ELSE ResolvedBackupDir(setv.backup.backup_dir),
                  bk |-> r.bk, log |-> r.log]

----------------------------------------------------------------------------
(* The states the run can start in. *)

DbStates ==
    {d \in [exists : SUBSET TableNames, rows : [TableNames -> {0, MaxRows}]] :
        \A t \in TableNames : t \notin d.exists => d.rows[t] = 0}

\* What a folder f can hold before the run: nothing there, or a directory
\* whose children are its own.
FolderStates(f) ==
    {NoDir} \cup
    {[exists |-> TRUE, kids |-> k] :
        k \in [Names -> {NoEntry} \cup {Entry(kind, f) : kind \in Kinds}]}

Holding(f, kx, ky) ==
    [exists |-> TRUE,
     kids |-> [n \in Names |->
                 LET k == IF n = "x" THEN kx ELSE ky
                 IN IF k = "none" THEN NoEntry ELSE Entry(k, f)]]

\* The sequences over S without repetition.
InjectiveSeqs(S) ==
    {q \in SeqUpTo(S, Cardinality(S)) :
        \A i, j \in 1..Len(q) : q[i] = q[j] => i = j}

MkFs(a, b, src) ==
    [f \in Folders |->
        IF f = DirA THEN a ELSE IF f = DirB THEN b
        ELSE IF f = DirS THEN src ELSE NoDir]

TypicalFs == MkFs(Holding(DirA, "file", "none"), NoDir, Holding(DirS, "file", "dir"))

TypicalDb ==
    [exists |-> {"users", "logs"},
     rows |-> [t \in TableNames |-> IF t = "users" THEN MaxRows ELSE 0]]

\* The database varies: mode, table list, tables, privileges, confirmation.
InitDatabase ==
    /\ \E mode \in Modes, confirm \in BOOLEAN :
         \E tables \in IF mode \in {"drop_list", "truncate"}
                       THEN SeqUpTo(TableNames, MaxTables)
                       ELSE {<<>>, <<"users">>} :
            ini = MkSettings("shop", mode, tables, <<DirA>>, <<DirS>>, <<DirA>>,
                             "", FALSE, "", confirm)
    /\ db \in DbStates
    /\ denied \in {{}, {"sessions"}}
    /\ fs = TypicalFs
    /\ tools = TRUE
    /\ bk = NoBackup /\ bk_ok = TRUE
    /\ deps_ok = TRUE /\ ini_exists = TRUE

\* One pair, source to cleaned destination: what the two folders hold varies.
InitChildren ==
    /\ \E clean \in {<<DirA>>, <<>>}, user \in {"", "www"}, confirm \in BOOLEAN :
         ini = MkSettings("", "truncate", <<>>, clean, <<DirS>>, <<DirA>>,
                          user, FALSE, "", confirm)
    /\ \E a \in FolderStates(DirA), src \in FolderStates(DirS) :
         fs = MkFs(a, NoDir, src)
    /\ tools \in BOOLEAN
    /\ ini.folders.copy_user = "" => tools = TRUE
    /\ db = TypicalDb /\ denied = {}
    /\ bk = NoBackup /\ bk_ok = TRUE
    /\ deps_ok = TRUE /\ ini_exists = TRUE

\* The clean-list and the copy lists vary.
InitLists ==
    /\ \E clean \in InjectiveSeqs({DirA, DirB}),
          srcs \in SeqUpTo({DirS, DirM}, MaxPairs),
          dsts \in SeqUpTo({DirA, DirB}, MaxPairs),
          user \in {"", "www"} :
         ini = MkSettings("", "truncate", <<>>, clean, srcs, dsts, user,
                          FALSE, "", FALSE)
    /\ \E a \in {NoDir, Holding(DirA, "file", "none")},
          b \in {NoDir, Holding(DirB, "none", "dir")},
          src \in {Holding(DirS, "file", "dir"),
                   Holding(DirS, "broken_link", "file")} :
         fs = MkFs(a, b, src)
    /\ tools = TRUE
    /\ db = TypicalDb /\ denied = {}
    /\ bk = NoBackup /\ bk_ok = TRUE
    /\ deps_ok = TRUE /\ ini_exists = TRUE

\* The backup varies: the flag, the directory and what it already holds,
\* the folders to back up.
InitBackup ==
    /\ \E clean \in InjectiveSeqs({DirA, DirB}), srcs \in {<<>>, <<DirS>>},
          enable \in BOOLEAN, dir \in {"", "/backup"} :
         ini = MkSettings("shop", "truncate", <<"users">>, clean, srcs,
                          IF srcs = <<>> THEN <<>> ELSE <<DirA>>, "",
                          enable, dir, FALSE)
    /\ \E a \in {NoDir, Holding(DirA, "file", "none"),
                 Holding(DirA, "broken_link", "file")},
          b \in {NoDir, Holding(DirB, "none", "file")} :
         fs = MkFs(a, b, Holding(DirS, "file", "none"))
    /\ bk \in {NoBackup, [NoBackup EXCEPT !.exists = TRUE],
               [exists |-> TRUE,
                kids |-> [n \in Basenames |-> IF n = "a" THEN <<"old">> ELSE <<>>]]}
    /\ ini.backup.backup_dir = "" => bk = NoBackup
    /\ bk_ok \in BOOLEAN
    /\ bk.exists => bk_ok = TRUE
    /\ tools = TRUE
    /\ db = TypicalDb /\ denied = {}
    /\ deps_ok = TRUE /\ ini_exists = TRUE

\* The run cannot start: a dependency or settings.ini is missing.
InitMissing ==
    /\ ini = MkSettings("shop", "drop_all", <<>>, <<DirA>>, <<DirS>>, <<DirA>>,
                        "", TRUE, "", FALSE)
    /\ deps_ok \in BOOLEAN /\ ini_exists \in BOOLEAN
    /\ ~(deps_ok /\ ini_exists)
    /\ fs = TypicalFs /\ tools = TRUE
    /\ db = TypicalDb /\ denied = {}
    /\ bk = NoBackup /\ bk_ok = TRUE

\* The outcomes of the phases vary: the backup root cannot be created or a
\* folder to back up holds a dangling link, the connection, the answers.
InitOutcomes ==
    /\ \E mode \in {"drop_all", "truncate"}, confirm \in BOOLEAN :
         ini = MkSettings("shop", mode, <<"users">>, <<DirA>>, <<DirS>>,
                          <<DirA>>, "", TRUE, "", confirm)
    /\ \E a \in {Holding(DirA, "file", "none"),
                 Holding(DirA, "broken_link", "none")} :
         fs = MkFs(a, NoDir, Holding(DirS, "none", "file"))
    /\ bk = NoBackup /\ bk_ok \in BOOLEAN
    /\ tools = TRUE
    /\ db = TypicalDb /\ denied = {}
    /\ deps_ok = TRUE /\ ini_exists = TRUE

Init ==
    /\ pc = "check_dependencies"
    /\ trace = <<>>
    /\ err = ""
    /\ settings = Unloaded
    /\ conn = "closed"
    /\ fk = 1
    /\ sql = <<>>
    /\ prompts = <<>>
    /\ bklog = <<>>
    /\ backup_path = None
    /\ cplog = <<>>
    /\ \/ InitDatabase
       \/ InitChildren
       \/ InitLists
       \/ InitBackup
       \/ InitOutcomes
       \/ InitMissing
    /\ db0 = db
    /\ fs0 = fs
    /\ fs1 = fs

----------------------------------------------------------------------------
(* __main__, one action per phase. *)

Env == <<deps_ok, ini_exists, ini, denied, tools, bk_ok, db0, fs0>>

\* check_dependencies: a missing package ends the run with sys.exit(1).
CheckDependencies ==
    /\ pc = "check_dependencies"
    /\ IF deps_ok
       THEN pc' = "load_settings" /\ err' = err
       ELSE pc' = "done" /\ err' = "SystemExit"
    /\ UNCHANGED <<trace, settings, db, conn, fk, sql, prompts, fs, fs1, bk,
                   bklog, backup_path, cplog, Env>>

\* load_settings: a missing settings.ini raises FileNotFoundError, which
\* __main__ reports before anything else ran.
LoadSettings ==
    /\ pc = "load_settings"
    /\ IF ini_exists
       THEN /\ settings' = ini
            /\ trace' = Append(trace, "load")
            /\ pc' = "summarize"
            /\ err' = err
       ELSE /\ settings' = settings
            /\ trace' = trace
            /\ pc' = "done"
            /\ err' = "FileNotFoundError"
    /\ UNCHANGED <<db, conn, fk, sql, prompts, fs, fs1, bk, bklog, backup_path,
                   cplog, Env>>

\* Mutant of PrintSettingsSummary: __main__ goes from the summary straight
\* to the database, the backup block left out.
SummaryThenDatabase ==
    /\ pc = "summarize"
    /\ trace' = Append(trace, "summarize")
    /\ pc' = "show_before"
    /\ UNCHANGED <<err, settings, db, conn, fk, sql, prompts, fs, fs1, bk,
                   bklog, backup_path, cplog, Env>>

\* print_settings_summary: output only.
PrintSettingsSummary ==
    /\ pc = "summarize"
    /\ trace' = Append(trace, "summarize")
    /\ pc' = "backup"
    /\ UNCHANGED <<err, settings, db, conn, fk, sql, prompts, fs, fs1, bk,
                   bklog, backup_path, cplog, Env>>

\* Mutant of CreateBackup: a backup that was asked for and failed ends the
\* run.
CreateBackupOrStop ==
    /\ pc = "backup"
    /\ IF settings.backup.enable
       THEN \E order \in Orders(Range(settings.folders.clean
                                      \o settings.folders.copy_sources)) :
              LET r == create_backup(settings, order, fs, bk, bk_ok)
              IN /\ bk' = r.bk
                 /\ bklog' = r.log
                 /\ backup_path' = r.path
                 /\ trace' = Append(trace, "backup")
                 /\ IF r.path = None
                    THEN pc' = "done" /\ err' = "BackupFailed"
                    ELSE pc' = "show_before" /\ err' = err
       ELSE /\ backup_path' = None
            /\ pc' = "show_before"
            /\ UNCHANGED <<bk, bklog, trace, err>>
    /\ UNCHANGED <<settings, db, conn, fk, sql, prompts, fs, fs1, cplog, Env>>

\* The backup phase of __main__: create_backup over the folders of the
\* clean-list and the copy sources, in the order list(set(...)) gives.
CreateBackup ==
    /\ pc = "backup"
    /\ IF settings.backup.enable
       THEN \E order \in Orders(Range(settings.folders.clean
                                      \o settings.folders.copy_sources)) :
              LET r == create_backup(settings, order, fs, bk, bk_ok)
              IN /\ bk' = r.bk
                 /\ bklog' = r.log
                 /\ backup_path' = r.path
                 /\ trace' = Append(trace, "backup")
       ELSE /\ backup_path' = None
            /\ UNCHANGED <<bk, bklog, trace>>
    /\ pc' = "show_before"
    /\ UNCHANGED <<err, settings, db, conn, fk, sql, prompts, fs, fs1, cplog,
                   Env>>

\* show_database_info, before and after the clean: output only, whether or
\* not its connection opens.
ShowDatabaseInfo ==
    /\ pc \in {"show_before", "show_after"}
    /\ trace' = Append(trace, pc)
    /\ pc' = IF pc = "show_before" THEN "clean_db" ELSE "clean_folders"
    /\ UNCHANGED <<err, settings, db, conn, fk, sql, prompts, fs, fs1, bk,
                   bklog, backup_path, cplog, Env>>

\* Mutant of Gate: the answer to the prompt is not looked at.
GateIgnoringTheAnswer(setv, raw) ==
    LET mode == setv.database.mode
        tables_list == setv.database.tables
        confirm == setv.security.confirm_destructive_operations
    IN [asks |-> \/ mode = "drop_all" /\ confirm
                 \/ mode = "drop_list" /\ confirm /\ tables_list # <<>>,
        next |-> CASE mode = "drop_all" -> "drop_all_tables"
                   [] mode = "drop_list" -> "drop_specific_tables"
                   [] mode = "truncate" -> "truncate_tables"
                   [] OTHER -> "close"]

\* Where clean_database goes after its connection opened: the mode's
\* function, or straight to the finally clause (unknown mode, refusal, or an
\* exception of the prompt caught by the function).
Gate(setv, raw) ==
    LET mode == setv.database.mode
        tables_list == setv.database.tables
        confirm == setv.security.confirm_destructive_operations
        asks == \/ mode = "drop_all" /\ confirm
                \/ mode = "drop_list" /\ confirm /\ tables_list # <<>>
        goes == CASE mode = "drop_all" -> "drop_all_tables"
                  [] mode = "drop_list" -> "drop_specific_tables"
                  [] mode = "truncate" -> "truncate_tables"
                  [] OTHER -> "close"
    IN [asks |-> asks,
        next |-> IF asks /\ (raw = Eof \/ ~confirm_destructive_operation(raw))
                 THEN "close" ELSE goes]

\* A call of confirm_destructive_operation: what it asked about and the
\* line it read.
Prompt(what, raw) == [what |-> what, raw |-> raw]

\* clean_database up to the call of the mode's function; __main__ skips it
\* when no database name is configured.
CleanDatabase ==
    /\ pc = "clean_db"
    /\ IF settings.database.database_name = ""
       THEN /\ pc' = "show_after"
            /\ UNCHANGED <<trace, conn, fk, prompts>>
       ELSE /\ trace' = Append(trace, "clean_db")
            /\ \E connected \in BOOLEAN :
                 IF ~connected
                 THEN /\ pc' = "show_after"
                      /\ conn' = "failed"
                      /\ UNCHANGED <<fk, prompts>>
                 ELSE \E raw \in Inputs :
                        LET g == Gate(settings, raw)
                        IN /\ conn' = "open"
                           /\ fk' = 1
                           /\ prompts' = IF g.asks
                                         THEN Append(prompts,
                                                Prompt(settings.database.mode, raw))
                                         ELSE prompts
                           /\ pc' = g.next
    /\ UNCHANGED <<err, settings, db, sql, fs, fs1, bk, bklog, backup_path,
                   cplog, Env>>

DropAllTables ==
    /\ pc = "drop_all_tables"
    /\ \E handler_ok \in BOOLEAN :
         LET r == drop_all_tables(db, denied, handler_ok)
         IN db' = r.db /\ sql' = sql \o r.sql /\ fk' = r.fk
    /\ pc' = "close"
    /\ UNCHANGED <<trace, err, settings, conn, prompts, fs, fs1, bk, bklog,
                   backup_path, cplog, Env>>

DropSpecificTables ==
    /\ pc = "drop_specific_tables"
    /\ \E handler_ok \in BOOLEAN :
         LET r == drop_specific_tables(db, denied, settings.database.tables,
                                       handler_ok)
         IN db' = r.db /\ sql' = sql \o r.sql /\ fk' = r.fk
    /\ pc' = "close"
    /\ UNCHANGED <<trace, err, settings, conn, prompts, fs, fs1, bk, bklog,
                   backup_path, cplog, Env>>

TruncateTables ==
    /\ pc = "truncate_tables"
    /\ LET r == truncate_tables(db, denied, settings.database.tables)
       IN db' = r.db /\ sql' = sql \o r.sql
    /\ pc' = "close"
    /\ UNCHANGED <<trace, err, settings, conn, fk, prompts, fs, fs1, bk, bklog,
                   backup_path, cplog, Env>>

\* The finally clause of clean_database: the session ends.
CloseConnection ==
    /\ pc = "close"
    /\ conn' = "closed"
    /\ fk' = 1
    /\ pc' = "show_after"
    /\ UNCHANGED <<trace, err, settings, db, sql, prompts, fs, fs1, bk, bklog,
                   backup_path, cplog, Env>>

\* clean_folders; __main__ skips it when the clean-list is empty.  EOFError
\* from the prompt is caught by nothing but __main__.
CleanFolders ==
    /\ pc = "clean_folders"
    /\ LET folders_to_clean == settings.folders.clean
           confirm == settings.security.confirm_destructive_operations
       IN IF folders_to_clean = <<>>
          THEN /\ pc' = "copy"
               /\ UNCHANGED <<trace, err, prompts, fs>>
          ELSE /\ trace' = Append(trace, "clean_folders")
               /\ IF ~confirm
                  THEN /\ fs' = CleanLoop(fs, folders_to_clean, 1)
                       /\ pc' = "copy"
                       /\ UNCHANGED <<err, prompts>>
                  ELSE \E raw \in Inputs :
                         /\ prompts' = Append(prompts, Prompt("clean_folders", raw))
                         /\ IF raw = Eof
                            THEN pc' = "done" /\ err' = "EOFError" /\ fs' = fs
                            ELSE /\ pc' = "copy"
                                 /\ err' = err
                                 /\ fs' = IF confirm_destructive_operation(raw)
                                          THEN CleanLoop(fs, folders_to_clean, 1)
                                          ELSE fs
    /\ UNCHANGED <<settings, db, conn, fk, sql, fs1, bk, bklog, backup_path,
                   cplog, Env>>

\* copy_files_to_cleaned_folders; __main__ skips it when a copy list is
\* empty.
CopyFiles ==
    /\ pc = "copy"
    /\ fs1' = fs
    /\ IF settings.folders.copy_sources # <<>>
          /\ settings.folders.copy_destinations # <<>>
       THEN /\ trace' = Append(trace, "copy")
            /\ \E order \in Orders(Names), mkdir_ok \in BOOLEAN, thru \in BOOLEAN :
                 LET r == copy_files_to_cleaned_folders(fs, settings.folders,
                                                        tools, order, mkdir_ok, thru)
                 IN fs' = r.fs /\ cplog' = r.log
       ELSE UNCHANGED <<trace, fs, cplog>>
    /\ pc' = "done"
    /\ UNCHANGED <<err, settings, db, conn, fk, sql, prompts, bk, bklog,
                   backup_path, Env>>

Next ==
    \/ CheckDependencies
    \/ LoadSettings
    \/ PrintSettingsSummary
    \/ CreateBackup
    \/ ShowDatabaseInfo
    \/ CleanDatabase
    \/ DropAllTables
    \/ DropSpecificTables
    \/ TruncateTables
    \/ CloseConnection
    \/ CleanFolders
    \/ CopyFiles

Spec == Init /\ [][Next]_vars

----------------------------------------------------------------------------
(* Properties: the database. *)

Mode == settings.database.mode

Tables == settings.database.tables

Confirm == settings.security.confirm_destructive_operations

\* The line typed at a prompt is one of the yes tokens y, yes and their
\* localized forms, whatever its case and the blanks around it.
Yes(p) == p.raw # Eof /\ ToLower(Strip(p.raw)) \in YesTokens

\* The prompts clean_database issued.
DbPrompts == SelectSeq(prompts, LAMBDA p : p.what # "clean_folders")

\* The mode's function has returned and the session is still open.
Returned == pc = "close" /\ sql # <<>>

\* The mode's function has run (the statement log is written by nothing
\* else).
Ran(mode) == Mode = mode /\ sql # <<>>

\* The statements of the log that name a table.
TableStmts == SelectSeq(sql, LAMBDA q : q.tables # {})

\* C1: whenever drop_all_tables or drop_specific_tables has executed
\* SET FOREIGN_KEY_CHECKS = 0, a SET FOREIGN_KEY_CHECKS = 1 has succeeded
\* and the checks are on when the function returns, on every return path.
C1_FkChecksReenabledOnReturn ==
    (Returned /\ Mode \in {"drop_all", "drop_list"} /\ sql[1] = FkOff)
        => /\ fk = 1
           /\ \E i \in 2..Len(sql) : sql[i] = FkOn(TRUE)

\* The position of the first table of the list whose TRUNCATE fails on the
\* database the run started with, or one past the list.
RECURSIVE FirstRefused(_, _)
FirstRefused(tables_list, i) ==
    IF i > Len(tables_list) THEN i
    ELSE IF tables_list[i] \in db0.exists /\ tables_list[i] \notin denied
         THEN FirstRefused(tables_list, i + 1)
         ELSE i

Same(t) == (t \in db.exists <=> t \in db0.exists) /\ db.rows[t] = db0.rows[t]

C3_ConfirmationGate ==
    LET gated == \/ Mode = "drop_all"
                 \/ Mode = "drop_list" /\ Tables # <<>>
        reached == pc \in {"drop_all_tables", "drop_specific_tables",
                           "truncate_tables", "close"}
    IN /\ Len(DbPrompts) <= 1
       /\ DbPrompts # <<>> => Confirm /\ gated /\ DbPrompts[1].what = Mode
       /\ (reached /\ Confirm /\ gated) => DbPrompts # <<>>
       /\ (Confirm /\ gated /\ (sql # <<>> \/ db # db0 \/ pc \in
              {"drop_all_tables", "drop_specific_tables"}))
            => DbPrompts # <<>> /\ Yes(DbPrompts[1])
       /\ Mode = "truncate" /\ reached
            => pc = "truncate_tables" \/ sql # <<>>

\* C3's case: confirmation on, drop_list mode, the prompt answered yes and a
\* table dropped.
C3_Witness ==
    /\ Confirm /\ Mode = "drop_list"
    /\ DbPrompts # <<>> /\ Yes(DbPrompts[1])
    /\ db.exists # db0.exists

----------------------------------------------------------------------------
(* Properties: the folders. *)

Clean == settings.folders.clean

Sources == settings.folders.copy_sources

Destinations == settings.folders.copy_destinations

CopyUser == settings.folders.copy_user

\* __main__ ran to its end, through copy_files_to_cleaned_folders.
Completed == pc = "done" /\ err = ""

\* The pairs passed over because their destination is not in the clean-list.
NotCleaned == {i \in 1..Len(Destinations) : Destinations[i] \notin Range(Clean)}

\* The number a pair has once the pairs in skip are taken out of the lists.
Renumbered(i, skip) == i - Cardinality({k \in skip : k < i})

ChildNames(d) == {n \in Names : d.kids[n].kind # "none"}

\* C4: something is written into copy_destinations[i] only if the two lists
\* have the same length, copy_destinations[i] is in the clean-list and
\* copy_sources[i] exists; lists of different length copy nothing; and the
\* pairs passed over for their destination leave the outcome what it is
\* without them.
C4_CopyOnlyIntoCleanedDestinations ==
    Completed
        => /\ \A j \in 1..Len(cplog) :
                 LET i == cplog[j].pair
                 IN /\ Len(Sources) = Len(Destinations)
                    /\ i \in 1..Len(Destinations)
                    /\ Destinations[i] \in Range(Clean)
                    /\ fs1[Sources[i]].exists
           /\ \A f \in Folders :
                 fs[f] # fs1[f]
                    => \E j \in 1..Len(cplog) : Destinations[cplog[j].pair] = f
           /\ Len(Sources) # Len(Destinations) => fs = fs1 /\ cplog = <<>>
           /\ (Len(Sources) = Len(Destinations) /\ NotCleaned # {})
                 => \E order \in Orders(Names), mkdir_ok \in BOOLEAN,
                       thru \in BOOLEAN :
                      LET r == copy_files_to_cleaned_folders(fs1,
                                 [settings.folders EXCEPT
                                    !.copy_sources = Without(Sources, NotCleaned),
                                    !.copy_destinations =
                                        Without(Destinations, NotCleaned)],
                                 tools, order, mkdir_ok, thru)
                      IN /\ r.fs = fs
                         /\ r.log = [j \in 1..Len(cplog) |->
                                       Event(Renumbered(cplog[j].pair, NotCleaned),
                                             cplog[j].item, cplog[j].status)]

\* C4's case: a pair passed over for its destination, before a pair that
\* copied a child into its own destination.
C4_Witness ==
    /\ Completed
    /\ Len(Sources) = 2 /\ Len(Destinations) = 2
    /\ NotCleaned = {1}
    /\ \E j \in 1..Len(cplog) :
          /\ cplog[j].pair = 2 /\ cplog[j].status = "ok"
          /\ cplog[j].item \in Names
          /\ fs[Destinations[2]].kids[cplog[j].item].from = Sources[2]
    /\ fs[Destinations[1]] = fs1[Destinations[1]]

\* The pairs whose children the function sets out to copy.
Eligible(i) ==
    /\ Len(Sources) = Len(Destinations)
    /\ Destinations[i] \in Range(Clean)
    /\ fs1[Sources[i]].exists
    /\ \A j \in 1..Len(cplog) :
          (cplog[j].pair = i /\ cplog[j].item = "mkdir") => cplog[j].status = "ok"

\* What the log holds for the children of pair i.
ItemEvents(i) ==
    SelectSeq(cplog, LAMBDA e : e.pair = i /\ e.item # "mkdir")

\* A child of the source of pair i whose own copy succeeds: a file or a
\* directory, nothing of its name in the destination, the tools at hand.
OwnCopySucceeds(i, n) ==
    /\ fs1[Sources[i]].kids[n].kind \in {"file", "dir"}
    /\ fs1[Destinations[i]].kids[n].kind = "none"
    /\ CopyUser # "" => tools

Cleaned ==
    /\ pc = "copy"
    /\ Clean # <<>>
    /\ Confirm => /\ prompts # <<>>
                  /\ prompts[Len(prompts)].what = "clean_folders"
                  /\ Yes(prompts[Len(prompts)])

\* C6: after clean_folders, every clean-list folder that existed still
\* exists and has no direct child, whatever its children were; a folder that
\* did not exist is not created.
C6_CleanedFoldersHaveNoChildren ==
    Cleaned
        => \A f \in Range(Clean) :
              IF fs0[f].exists
              THEN fs[f].exists /\ ChildNames(fs[f]) = {}
              ELSE ~fs[f].exists

\* C7: with one folder D in the clean-list, one copy source S and the copy
\* destination D, both existing, the children of D when the run completes
\* are the children S had when it started.
C7_DestinationHoldsTheSourcesChildren ==
    (/\ Completed
     /\ Len(Clean) = 1 /\ Len(Sources) = 1 /\ Destinations = Clean
     /\ Sources # Clean
     /\ fs0[Sources[1]].exists /\ fs0[Clean[1]].exists)
        => ChildNames(fs[Clean[1]]) = ChildNames(fs0[Sources[1]])

----------------------------------------------------------------------------
(* Properties: the run and the backup. *)

Phases ==
    <<"load", "summarize", "backup", "show_before", "clean_db", "show_after",
      "clean_folders", "copy">>

Position(p) == CHOOSE i \in 1..Len(Phases) : Phases[i] = p

\* The phases a completed run goes through under its settings.
Due(p) ==
    CASE p = "backup" -> settings.backup.enable
      [] p = "clean_db" -> settings.database.database_name # ""
      [] p = "clean_folders" -> Clean # <<>>
      [] p = "copy" -> Sources # <<>> /\ Destinations # <<>>
      [] OTHER -> TRUE

\* C8: the phases run in the fixed order, each at most once; no table and no
\* child of a folder is touched before the backup phase is over, and none at
\* all when settings.ini is missing.
C8_PhasesInFixedOrder ==
    /\ \A i, j \in 1..Len(trace) :
          i < j => Position(trace[i]) < Position(trace[j])
    /\ \A i \in 1..Len(trace) : Due(trace[i])
    /\ Completed => \A i \in 1..Len(Phases) :
                       Due(Phases[i]) => Phases[i] \in Range(trace)
    /\ (db # db0 \/ fs # fs0)
          => /\ {"load", "summarize"} \subseteq Range(trace)
             /\ settings.backup.enable => "backup" \in Range(trace)
             /\ pc \notin {"check_dependencies", "load_settings", "summarize",
                           "backup"}
    /\ pc \in {"check_dependencies", "load_settings", "summarize", "backup"}
          => bklog = <<>> /\ backup_path = None
    /\ ~ini_exists => db = db0 /\ fs = fs0 /\ trace = <<>> /\ sql = <<>>

\* C8's case: a completed run that went through all eight phases, with
\* tables and folders changed after a backup was taken.
C8_Witness ==
    /\ Completed
    /\ trace = Phases
    /\ db # db0 /\ fs # fs0
    /\ backup_path # None

BackupRan == "backup" \in Range(trace)

BackupSources == Range(Clean \o Sources)

\* C10 as stated: with backup enabled, whenever the backup root could be
\* created create_backup returns the resolved path, and every source is tried
\* whether or not another one failed.
C10_PathWheneverTheRootWasCreated ==
    (BackupRan /\ bk.exists)
        => /\ backup_path = ResolvedBackupDir(settings.backup.backup_dir)
           /\ \A f \in BackupSources :
                 fs0[f].exists => \E j \in 1..Len(bklog) : bklog[j].src = f

\* C10 amended: create_backup returns the resolved path exactly when the
\* root was created and no source's copy raised, and then every existing
\* source is in the backup; the first source whose copy raises is the last
\* one tried and the result is null.
C10_PathOnlyWhenEverySourceWasCopied ==
    BackupRan
        => /\ backup_path \in {None, ResolvedBackupDir(settings.backup.backup_dir)}
           /\ backup_path # None
                 <=> (bk.exists /\ \A j \in 1..Len(bklog) : bklog[j].ok)
           /\ \A j \in 1..(Len(bklog) - 1) : bklog[j].ok
           /\ ~bk.exists => bklog = <<>>
           /\ backup_path # None
                 => \A f \in BackupSources :
                       fs0[f].exists => bk.kids[basename(f)] = f

\* C10's case: the root was created, one source was copied, the next one
\* raised, and the result is null.
C10_Witness ==
    /\ BackupRan
    /\ bk.exists
    /\ Len(bklog) = 2 /\ bklog[1].ok /\ ~bklog[2].ok
    /\ backup_path = None
    /\ \E f \in BackupSources :
          fs0[f].exists /\ \A j \in 1..Len(bklog) : bklog[j].src # f

----------------------------------------------------------------------------
(* Properties: what an earlier phase's outcome does to the later ones. *)

\* The backup was asked for and create_backup returned None.
BackupFailed == BackupRan /\ backup_path = None

\* create_db_connection returned an error to clean_database.
ConnectionFailed == conn = "failed"

\* The last prompt was the one of clean_folders.
FolderPrompt == prompts # <<>> /\ prompts[Len(prompts)].what = "clean_folders"

\* The user answered the prompt of clean_folders with something else than a
\* yes token.
Declined ==
    FolderPrompt /\ prompts[Len(prompts)].raw # Eof /\ ~Yes(prompts[Len(prompts)])

\* The prompt of clean_folders could not read its answer.
FolderPromptRaised == FolderPrompt /\ prompts[Len(prompts)].raw = Eof

\* The run is over and one of the three outcomes happened on its way.
EndedAfterAnOutcome ==
    pc = "done" /\ (BackupFailed \/ ConnectionFailed \/ Declined)

\* C11 as stated: after a failed backup, a failed connection or a declined
\* folder clean, the run still executes every remaining phase its settings
\* call for.
C11_EveryRemainingPhaseRuns ==
    EndedAfterAnOutcome
        => \A i \in 1..Len(Phases) : Due(Phases[i]) => Phases[i] \in Range(trace)

\* C11 amended: after a failed backup, a failed connection or a declined
\* folder clean the run executes every remaining phase its settings call
\* for, unless the prompt of clean_folders raises, which ends the run with
\* nothing cleaned and before the copy phase.  Right after a failed backup
\* or a failed connection the next phase is ready to run.  A failed
\* connection leaves the tables alone; a declined folder clean leaves the
\* run at the copy phase, which starts from the folders as they were.
C11_RemainingPhasesRunUnlessThePromptRaises ==
    /\ EndedAfterAnOutcome
          => IF FolderPromptRaised
             THEN /\ err = "EOFError"
                  /\ "copy" \notin Range(trace)
                  /\ fs = fs0
                  /\ \A i \in 1..Len(Phases) :
                        (Due(Phases[i]) /\ Phases[i] # "copy")
                           => Phases[i] \in Range(trace)
             ELSE /\ err = ""
                  /\ \A i \in 1..Len(Phases) :
                        Due(Phases[i]) => Phases[i] \in Range(trace)
    /\ BackupFailed /\ pc = "show_before" => ENABLED ShowDatabaseInfo
    /\ ConnectionFailed /\ pc = "show_after" => ENABLED ShowDatabaseInfo
    /\ ConnectionFailed => db = db0 /\ sql = <<>>
    /\ Declined => IF pc = "copy" THEN fs = fs0 ELSE pc = "done" /\ fs1 = fs0

\* C11's case: the backup failed, the tables were emptied or dropped all the
\* same, the folder clean was declined and a child was copied into the
\* folder, next to what it held.
C11_Witness ==
    /\ Completed
    /\ settings.backup.enable /\ BackupFailed
    /\ db # db0
    /\ Declined
    /\ \E i \in 1..Len(Destinations), n \in Names :
          /\ \E j \in 1..Len(cplog) : cplog[j] = Event(i, n, "ok")
          /\ fs[Destinations[i]].kids[n].from = Sources[i]
          /\ \E m \in Names \ {n} :
                /\ fs0[Destinations[i]].kids[m].kind # "none"
                /\ fs[Destinations[i]].kids[m] = fs0[Destinations[i]].kids[m]

====
